---- MODULE Spec2Model ----
(***************************************************************************)
(* mesh2sdf.compute (src/mesh2sdf/compute.py): mesh -> signed distance     *)
(* field, with the optional repair branch                                  *)
(*   GridField -> abs -> marching cubes -> split -> shell selection ->     *)
(*   merge -> renormalise -> GridField.                                    *)
(*                                                                         *)
(* Three specifications share the module:                                  *)
(*   Spec        one invocation of compute, stage by stage;                *)
(*   SpecSel     the shell selection of lines 40-68 as a pure function of  *)
(*               the component list;                                       *)
(*   SpecRenorm  the renormalisation of line 69 as a pure function of the  *)
(*               grid size and a grid index, in IEEE-754 binary64.         *)
(***************************************************************************)
EXTENDS Integers, Sequences, FiniteSets, TLC

\* ------------------------------------------------------------------ bounds
MaxComps == 3        \* components returned by mesh.split
MaxSize == 50        \* largest grid size of SpecRenorm
FracBits == 60       \* fraction bits of the fixed-point carrier of a binary64
LimbBits == 20       \* bits of a limb of the carrier

\* ------------------------------------------------- binary64 (Python float)
(* A binary64 of magnitude below 4 is carried exactly as a fixed-point     *)
(* number with FracBits fraction bits, held in limbs of LimbBits bits,     *)
(* least significant first: bit p (from 0) has weight 2^(p - FracBits).    *)
(* Every value line 69 produces for size - 1 < 2^(FracBits - 52) has its   *)
(* last significand bit at or above 2^-FracBits, so the carrier loses      *)
(* nothing; each operation rounds with RoundSig, as the hardware does.     *)
MantBits == 53
Width == FracBits + 2
\* one limb above the width holds a value scaled back to grid space
NumLimbs == ((Width + LimbBits - 1) \div LimbBits) + 1

RECURSIVE Pow2(_)
Pow2(k) == IF k = 0 THEN 1 ELSE 2 * Pow2(k - 1)

Base == Pow2(LimbBits)
LimbOf(p) == (p \div LimbBits) + 1
ZeroNum == [i \in 1..NumLimbs |-> 0]
OneNum == [i \in 1..NumLimbs |-> IF i = LimbOf(FracBits) THEN Pow2(FracBits % LimbBits) ELSE 0]

\* limbs that may exceed the base, or be negative, brought back into 0..Base-1
RECURSIVE CarryLoop(_, _, _)
CarryLoop(x, i, c) ==
  IF i > NumLimbs THEN x
  ELSE LET t == x[i] + c
           d == t % Base
       IN CarryLoop([x EXCEPT ![i] = d], i + 1, (t - d) \div Base)

Carry(x) == CarryLoop(x, 1, 0)

AddNum(x, y) == Carry([i \in 1..NumLimbs |-> x[i] + y[i]])
\* x - y for x >= y
SubNum(x, y) == Carry([i \in 1..NumLimbs |-> x[i] - y[i]])
\* the exact product of x and a small integer v >= 0
MulSmall(x, v) == Carry([i \in 1..NumLimbs |-> x[i] * v])

\* x + 2^(p - FracBits)
AddAt(x, p) == Carry([x EXCEPT ![LimbOf(p)] = @ + Pow2(p % LimbBits)])

RECURSIVE BitLen(_)
BitLen(k) == IF k = 0 THEN 0 ELSE 1 + BitLen(k \div 2)

\* the number of bits of x: one more than the position of its highest set bit
RECURSIVE TopBit(_, _)
TopBit(x, i) ==
  IF i = 0 THEN 0
  ELSE IF x[i] # 0 THEN (i - 1) * LimbBits + BitLen(x[i]) ELSE TopBit(x, i - 1)

BitAt(x, p) == (x[LimbOf(p)] \div Pow2(p % LimbBits)) % 2

\* x with the bits below position p cleared
Trunc(x, p) ==
  [i \in 1..NumLimbs |->
     IF i < LimbOf(p) THEN 0
     ELSE IF i = LimbOf(p) THEN x[i] - (x[i] % Pow2(p % LimbBits))
     ELSE x[i]]

\* round-half-to-even to MantBits significant bits; inexact says that the
\* exact value lies strictly above x (a remainder the carrier does not hold)
RoundSticky(x, inexact) ==
  LET keep == TopBit(x, NumLimbs) - MantBits   \* position of the last kept bit
  IN IF keep <= 0 THEN x
     ELSE LET guard == BitAt(x, keep - 1)
              sticky == inexact \/ Trunc(x, keep - 1) # x
          IN IF guard = 1 /\ (sticky \/ BitAt(x, keep) = 1)
               THEN AddAt(Trunc(x, keep), keep) ELSE Trunc(x, keep)

RoundSig(x) == RoundSticky(x, FALSE)

\* Long division of x by a small integer n, a limb at a time from the top:
\* <<the quotient, the remainder>>.
RECURSIVE DivLoop(_, _, _, _)
DivLoop(x, n, i, r) ==
  IF i = 0 THEN <<x, r>>
  ELSE LET cur == r * Base + x[i]
       IN DivLoop([x EXCEPT ![i] = cur \div n], n, i - 1, cur % n)

DivSmall(x, n) == DivLoop(x, n, NumLimbs, 0)

\* fl(2.0 / n) for an integer n >= 1
FDivTwoBy(n) ==
  LET d == DivSmall(AddNum(OneNum, OneNum), n)
  IN RoundSticky(d[1], d[2] # 0)

\* fl(v * c) for a binary64 c and an integer-valued binary64 v >= 0
FMulInt(c, v) == RoundSig(MulSmall(c, v))

\* fl(p - 1.0) for a binary64 p >= 0: sign and magnitude
FSubOne(p) ==
  IF TopBit(p, NumLimbs) > FracBits
    THEN [neg |-> FALSE, limbs |-> RoundSig(SubNum(p, OneNum))]
    ELSE [neg |-> TRUE, limbs |-> RoundSig(SubNum(OneNum, p))]

\* Renorm with the step 2 / size of a grid of size cells
RenormBySize(v, size) == FSubOne(FMulInt(FDivTwoBy(size), v))

\* line 69, one coordinate: v * (2.0 / (size - 1)) - 1.0
Renorm(v, size) == FSubOne(FMulInt(FDivTwoBy(size - 1), v))

\* An integer k as a binary64, |k| < 4, and the test a range check would use
FromInt(k) == [neg |-> k < 0, limbs |-> MulSmall(OneNum, IF k < 0 THEN 0 - k ELSE k)]
AtMostOne(x) == TopBit(x.limbs, NumLimbs) <= FracBits \/ x.limbs = OneNum

\* ------------------------------------------------------------------ meshes
(* A mesh is a sequence of vertices and a sequence of faces (index         *)
(* triples).  Vertices of the caller's mesh and of the renormalised mesh   *)
(* are binary64 triples in the logical domain; vertices of the extracted   *)
(* soup and of its components are grid positions, taken at integer grid    *)
(* indices.                                                                *)
\* trimesh.Trimesh(vertices, faces), for arrays without duplicate or non-finite
\* vertices (the constructor merges the first and drops the second)
Trimesh(vertices, faces) == [kind |-> "Trimesh", vertices |-> vertices, faces |-> faces]
NoMesh == [kind |-> "none", vertices |-> <<>>, faces |-> <<>>]
\* the two values trimesh.util.concatenate gives for no meshes at all,
\* depending on the trimesh release: an empty Trimesh, or the list []
EmptyTrimesh == Trimesh(<<>>, <<>>)
PyEmptyList == [kind |-> "list", vertices |-> <<>>, faces |-> <<>>]

Axes == 1..3

SetMin(S) == CHOOSE x \in S : \A y \in S : x <= y
SetMax(S) == CHOOSE x \in S : \A y \in S : x >= y
Coords(c, a) == {c.vertices[k][a] : k \in 1..Len(c.vertices)}

\* c.vertices.min(0), c.vertices.max(0) and c.bounds
VMin(c) == [a \in Axes |-> SetMin(Coords(c, a))]
VMax(c) == [a \in Axes |-> SetMax(Coords(c, a))]
Bounds(c) == <<VMin(c), VMax(c)>>

\* ---------------------------------------------------------- shell selection
\* BoundsContains with a closed box
BoundsContainsClosed(bounds, points) ==
  [k \in 1..Len(points) |->
     (\A a \in Axes : points[k][a] >= bounds[1][a]) /\ (\A a \in Axes : points[k][a] <= bounds[2][a])]

\* trimesh.bounds.contains(bounds, points): one flag per point, the point
\* strictly inside the box on every axis
BoundsContains(bounds, points) ==
  [k \in 1..Len(points) |->
     (\A a \in Axes : points[k][a] > bounds[1][a]) /\ (\A a \in Axes : points[k][a] < bounds[2][a])]

All(flags) == \A k \in 1..Len(flags) : flags[k]

\* KeepFlag where only the last other component decides (the flag is
\* overwritten on every pass of the inner loop)
KeepFlagLast(bounds, i) ==
  LET others == {j \in 1..Len(bounds) : j # i}
  IN others = {} \/ ~All(BoundsContains(bounds[SetMax(others)], bounds[i]))

\* lines 45-51: keep_flag of component i, given every component's bounds: False
\* once some other component's box contains both corners of its box
\* (c_other != c: another element of the list)
KeepFlag(bounds, i) ==
  ~\E j \in 1..Len(bounds) : j # i /\ All(BoundsContains(bounds[j], bounds[i]))

\* lines 41-53
KeepFlags(components) ==
  LET bounds == [i \in 1..Len(components) |-> Bounds(components[i])]
  IN [i \in 1..Len(components) |-> KeepFlag(bounds, i)]

\* line 58: [comp for comp, keep in zip(components, keep_flags) if keep]
RECURSIVE FilterKept(_, _)
FilterKept(components, flags) ==
  IF components = <<>> THEN <<>>
  ELSE LET rest == FilterKept(Tail(components), Tail(flags))
       IN IF Head(flags) THEN <<Head(components)>> \o rest ELSE rest

\* line 66: (bbmax - bbmin).max(), the longest side of the box
LongestSide(c) == SetMax({VMax(c)[a] - VMin(c)[a] : a \in Axes})

\* lines 62-66
BBox(components) == [i \in 1..Len(components) |-> LongestSide(components[i])]

\* ArgMax returning the last index of the maximum
ArgMaxLast(xs) == SetMax({i \in 1..Len(xs) : \A j \in 1..Len(xs) : xs[j] <= xs[i]})

\* np.argmax on a non-empty list: the first index of the maximum
ArgMax(xs) == SetMin({i \in 1..Len(xs) : \A j \in 1..Len(xs) : xs[j] <= xs[i]})

\* trimesh.util.concatenate of one or more meshes: vertices appended, face
\* indices shifted by the vertices before them
RECURSIVE Concatenate(_)
Concatenate(meshes) ==
  IF Len(meshes) = 1 THEN Trimesh(meshes[1].vertices, meshes[1].faces)
  ELSE LET m == meshes[1]
           r == Concatenate(Tail(meshes))
           n == Len(m.vertices)
       IN Trimesh(m.vertices \o r.vertices,
                  m.faces \o [f \in 1..Len(r.faces) |-> [k \in 1..3 |-> r.faces[f][k] + n]])

\* line 69 on a mesh: every coordinate of every vertex
RenormVertices(vs, size) == [k \in 1..Len(vs) |-> [a \in Axes |-> Renorm(vs[k][a], size)]]

\* ------------------------------------------------------------------ inputs
\* The caller's meshes: one inside [-1, 1]^3, one with a coordinate at 2.
Vertex(x, y, z) == <<FromInt(x), FromInt(y), FromInt(z)>>
InputMeshes ==
  { [vertices |-> <<Vertex(-1, -1, -1), Vertex(1, 1, 1), Vertex(0, 1, 0)>>, faces |-> << <<1, 2, 3>> >>],
    [vertices |-> <<Vertex(0, 0, 0), Vertex(2, 0, 0), Vertex(0, 1, 0)>>, faces |-> << <<1, 2, 3>> >>] }
Sizes == {4, 5}
Levels == {1, 3}

\* A field is the sequence of its node values; the values mesh2sdf.core.compute
\* may give are drawn from FieldVals.
Nodes == 1..2
FieldVals == {-2, 0, 2}
Fields == [Nodes -> FieldVals]
NoField == <<>>

\* A component spanning the box lo..hi: a triangle with a vertex at each of the
\* two corners.
BoxComp(ix, iy, iz) ==
  Trimesh(<< <<ix[1], iy[1], iz[1]>>, <<ix[2], iy[2], iz[2]>>, <<ix[2], iy[1], iz[1]>> >>,
          << <<1, 2, 3>> >>)
AxisIntervals == {<<0, 5>>, <<1, 4>>, <<2, 2>>}
\* (the z axis takes two of the three intervals)
SelComps ==
  {BoxComp(ix, iy, iz) : ix \in AxisIntervals, iy \in AxisIntervals, iz \in AxisIntervals \ {<<0, 5>>}}
PipeComps ==
  { BoxComp(<<0, 3>>, <<0, 3>>, <<0, 3>>), BoxComp(<<1, 1>>, <<1, 1>>, <<1, 1>>),
    BoxComp(<<0, 3>>, <<1, 1>>, <<0, 2>>) }
SeqUpTo(S, n) == UNION {[1..k -> S] : k \in 0..n}

\* ------------------------------------------------------------------- state
VARIABLES
  vertices, faces, size, fix, level, return_mesh, new_fix,  \* the arguments
  sdf,            \* the local sdf
  mesh,           \* the local mesh
  parts,          \* what mesh.split returned
  components,     \* the local components
  keep_flags,     \* the local keep_flags
  max_component,  \* the local max_component (0: not set)
  gridCalls,      \* the calls of mesh2sdf.core.compute so far, in order
  stages,         \* the stages passed, in order
  pc,             \* the stage reached
  err,            \* the exception that ended the call, if any
  ret             \* the returned tuple: <<>> nothing yet, <<sdf>> or <<sdf, mesh>>

args == <<vertices, faces, size, fix, level, return_mesh, new_fix>>
vars == <<vertices, faces, size, fix, level, return_mesh, new_fix, sdf, mesh, parts,
          components, keep_flags, max_component, gridCalls, stages, pc, err, ret>>

NoErr == [stage |-> "", kind |-> ""]

Locals0 ==
  /\ sdf = NoField /\ mesh = NoMesh /\ parts = <<>> /\ components = <<>>
  /\ keep_flags = <<>> /\ max_component = 0 /\ gridCalls = <<>>
  /\ err = NoErr /\ ret = <<>>

Init ==
  /\ \E m \in InputMeshes : vertices = m.vertices /\ faces = m.faces
  /\ size \in Sizes /\ fix \in BOOLEAN /\ level \in Levels
  /\ return_mesh \in BOOLEAN /\ new_fix \in BOOLEAN
  /\ Locals0
  /\ pc = "RAW" /\ stages = <<"RAW">>

Goto(stage) == pc' = stage /\ stages' = Append(stages, stage)
Raise(stage, kind) == Goto("ERROR") /\ err' = [stage |-> stage, kind |-> kind]

FieldMin(f) == SetMin({f[n] : n \in DOMAIN f})
FieldMax(f) == SetMax({f[n] : n \in DOMAIN f})
\* np.abs
Abs(f) == [n \in DOMAIN f |-> IF f[n] < 0 THEN 0 - f[n] ELSE f[n]]

\* one call of mesh2sdf.core.compute: its arguments and the field it gave
GridCall(vs, fs, n, field) == [vertices |-> vs, faces |-> fs, size |-> n, result |-> field]

\* ----------------------------------------------------------------- actions
\* line 27: sdf = mesh2sdf.core.compute(vertices, faces, size)
CallGridField1 ==
  /\ pc = "RAW"
  /\ sdf' \in Fields
  /\ gridCalls' = Append(gridCalls, GridCall(vertices, faces, size, sdf'))
  /\ Goto("FIELD1")
  /\ UNCHANGED <<args, mesh, parts, components, keep_flags, max_component, err, ret>>

\* ReturnRaw with np.abs applied before the test of fix
ReturnRawAbs ==
  /\ pc = "FIELD1" /\ ~fix
  /\ ret' = IF return_mesh THEN <<Abs(sdf), Trimesh(vertices, faces)>> ELSE <<Abs(sdf)>>
  /\ Goto("DONE")
  /\ UNCHANGED <<args, sdf, mesh, parts, components, keep_flags, max_component, gridCalls, err>>

\* lines 28-29: if not fix: return (sdf, Trimesh(vertices, faces)) or sdf
ReturnRaw ==
  /\ pc = "FIELD1" /\ ~fix
  /\ ret' = IF return_mesh THEN <<sdf, Trimesh(vertices, faces)>> ELSE <<sdf>>
  /\ Goto("DONE")
  /\ UNCHANGED <<args, sdf, mesh, parts, components, keep_flags, max_component, gridCalls, err>>

\* line 33: sdf = np.abs(sdf)
AbsField ==
  /\ pc = "FIELD1" /\ fix
  /\ sdf' = Abs(sdf)
  /\ Goto("ABS")
  /\ UNCHANGED <<args, mesh, parts, components, keep_flags, max_component, gridCalls, err, ret>>

\* MarchingCubes without the range check of the level
MarchingCubesUnchecked ==
  /\ pc = "ABS"
  /\ \E c \in PipeComps : mesh' = Trimesh(c.vertices, c.faces)
  /\ Goto("ISO")
  /\ err' = err
  /\ UNCHANGED <<args, sdf, parts, components, keep_flags, max_component, gridCalls, ret>>

\* lines 34-37: skimage.measure.marching_cubes(sdf, level), which raises
\* ValueError for a level outside the data range, then Trimesh(vertices, faces)
MarchingCubes ==
  /\ pc = "ABS"
  /\ IF level < FieldMin(sdf) \/ level > FieldMax(sdf)
       THEN Raise("ISO", "ValueError") /\ mesh' = mesh
       ELSE /\ \E c \in PipeComps : mesh' = Trimesh(c.vertices, c.faces)
            /\ Goto("ISO")
            /\ err' = err
  /\ UNCHANGED <<args, sdf, parts, components, keep_flags, max_component, gridCalls, ret>>

\* line 39: components = mesh.split(only_watertight=False).  trimesh's split is
\* not constrained by compute: any list of components, the empty one included.
Split ==
  /\ pc = "ISO"
  /\ parts' \in SeqUpTo(PipeComps, MaxComps)
  /\ components' = parts'
  /\ Goto("SPLIT")
  /\ UNCHANGED <<args, sdf, mesh, keep_flags, max_component, gridCalls, err, ret>>

\* lines 40-59 (new_fix) and 62-67 (else): np.argmax raises ValueError on []
Select ==
  /\ pc = "SPLIT"
  /\ IF new_fix
       THEN /\ keep_flags' = KeepFlags(components)
            /\ components' = FilterKept(components, keep_flags')
            /\ max_component' = max_component
            /\ Goto("SELECTED")
            /\ err' = err
       ELSE IF components = <<>>
         THEN /\ Raise("SELECTED", "ValueError")
              /\ UNCHANGED <<keep_flags, components, max_component>>
         ELSE /\ max_component' = ArgMax(BBox(components))
              /\ Goto("SELECTED")
              /\ UNCHANGED <<keep_flags, components, err>>
  /\ UNCHANGED <<args, sdf, mesh, parts, gridCalls, ret>>

\* line 60: mesh = trimesh.util.concatenate(components); line 68: mesh =
\* components[max_component]
Merge ==
  /\ pc = "SELECTED"
  /\ IF new_fix
       THEN IF components = <<>>
              THEN mesh' \in {EmptyTrimesh, PyEmptyList}
              ELSE mesh' = Concatenate(components)
       ELSE mesh' = components[max_component]
  /\ Goto("MERGED")
  /\ UNCHANGED <<args, sdf, parts, components, keep_flags, max_component, gridCalls, err, ret>>

\* line 69: mesh.vertices = mesh.vertices * (2.0 / (size - 1)) - 1.0; a list has
\* no attribute vertices (AttributeError)
Renormalize ==
  /\ pc = "MERGED"
  /\ IF mesh.kind = "list"
       THEN Raise("RENORMALIZED", "AttributeError") /\ mesh' = mesh
       ELSE /\ mesh' = [mesh EXCEPT !.vertices = RenormVertices(mesh.vertices, size)]
            /\ Goto("RENORMALIZED")
            /\ err' = err
  /\ UNCHANGED <<args, sdf, parts, components, keep_flags, max_component, gridCalls, ret>>

\* CallGridField2 on the mesh before it is renormalised
CallGridField2Early ==
  /\ pc = "MERGED" /\ mesh.kind = "Trimesh"
  /\ sdf' \in Fields
  /\ gridCalls' = Append(gridCalls, GridCall(mesh.vertices, mesh.faces, size, sdf'))
  /\ Goto("FIELD2")
  /\ UNCHANGED <<args, mesh, parts, components, keep_flags, max_component, err, ret>>

\* line 72: sdf = mesh2sdf.core.compute(mesh.vertices, mesh.faces, size)
CallGridField2 ==
  /\ pc = "RENORMALIZED"
  /\ sdf' \in Fields
  /\ gridCalls' = Append(gridCalls, GridCall(mesh.vertices, mesh.faces, size, sdf'))
  /\ Goto("FIELD2")
  /\ UNCHANGED <<args, mesh, parts, components, keep_flags, max_component, err, ret>>

\* ReturnFixed handing back the caller's mesh
ReturnFixedOriginal ==
  /\ pc = "FIELD2"
  /\ ret' = IF return_mesh THEN <<sdf, Trimesh(vertices, faces)>> ELSE <<sdf>>
  /\ Goto("DONE")
  /\ UNCHANGED <<args, sdf, mesh, parts, components, keep_flags, max_component, gridCalls, err>>

\* line 73: return (sdf, mesh) if return_mesh else sdf
ReturnFixed ==
  /\ pc = "FIELD2"
  /\ ret' = IF return_mesh THEN <<sdf, mesh>> ELSE <<sdf>>
  /\ Goto("DONE")
  /\ UNCHANGED <<args, sdf, mesh, parts, components, keep_flags, max_component, gridCalls, err>>

Next ==
  \/ CallGridField1 \/ ReturnRaw \/ AbsField \/ MarchingCubes \/ Split
  \/ Select \/ Merge \/ Renormalize \/ CallGridField2 \/ ReturnFixed

Spec == Init /\ [][Next]_vars

\* --------------------------------------- the shell selection on its own
SelInit ==
  /\ vertices = <<>> /\ faces = <<>>
  /\ size = SetMin(Sizes) /\ fix = TRUE /\ level = SetMin(Levels) /\ return_mesh = FALSE
  /\ new_fix \in BOOLEAN
  /\ parts \in SeqUpTo(SelComps, MaxComps)
  /\ components = parts
  /\ sdf = NoField /\ mesh = NoMesh /\ keep_flags = <<>> /\ max_component = 0
  /\ gridCalls = <<>> /\ err = NoErr /\ ret = <<>>
  /\ pc = "SPLIT" /\ stages = <<"SPLIT">>

SpecSel == SelInit /\ [][Select \/ Merge]_vars

\* --------------------------------------- the renormalisation on its own
\* one kept component with vertices at the grid indices 0, i, i + 1 and size - 1,
\* merged
RenormInit ==
  /\ vertices = <<>> /\ faces = <<>>
  /\ size \in 2..MaxSize
  /\ fix = TRUE /\ level = SetMin(Levels) /\ return_mesh = FALSE /\ new_fix = TRUE
  /\ \E i \in 0..(size - 1) :
       LET j == IF i + 1 < size THEN i + 1 ELSE i
       IN parts = << Trimesh(<< <<0, i, size - 1>>, <<i, j, i>>, <<size - 1, 0, j>> >>, << <<1, 2, 3>> >>) >>
  /\ components = parts /\ keep_flags = <<TRUE>> /\ mesh = Concatenate(components)
  /\ sdf = NoField /\ max_component = 0 /\ gridCalls = <<>> /\ err = NoErr /\ ret = <<>>
  /\ pc = "MERGED" /\ stages = <<"MERGED">>

SpecRenorm == RenormInit /\ [][Renormalize]_vars

\* ================================================================== claims
\* Notions the claims are stated in, written from the vertices and not from
\* the operators above.
Span(c, a) == {c.vertices[p][a] - c.vertices[q][a] : p, q \in 1..Len(c.vertices)}
Side(c) == SetMax(UNION {Span(c, a) : a \in Axes})
Diag2(c) == LET e == [a \in Axes |-> SetMax(Span(c, a))] IN e[1] * e[1] + e[2] * e[2] + e[3] * e[3]

\* the box of c lies strictly inside the box of d on every axis (open box)
StrictlyInside(c, d) ==
  \A a \in Axes : \A k \in 1..Len(c.vertices) :
    \E p, q \in 1..Len(d.vertices) :
      d.vertices[p][a] < c.vertices[k][a] /\ c.vertices[k][a] < d.vertices[q][a]
\* the box of c lies within the box of d on every axis (closed box)
Within(c, d) ==
  \A a \in Axes : \A k \in 1..Len(c.vertices) :
    \E p, q \in 1..Len(d.vertices) :
      d.vertices[p][a] <= c.vertices[k][a] /\ c.vertices[k][a] <= d.vertices[q][a]

\* the sub-list of xs at the indices in K, in order
SubListAt(xs, K, ys) ==
  /\ Len(ys) = Cardinality(K)
  /\ \A i \in K : ys[Cardinality({k \in K : k <= i})] = xs[i]

Passed(stage) == \E n \in 1..Len(stages) : stages[n] = stage

(* C1, as amended.  Under the containment policy a component of the list   *)
(* mesh.split returned is kept if and only if no other component's box     *)
(* contains its box strictly: both corners strictly inside on all three    *)
(* axes.  The kept list is the list of those components, in order.         *)
C1_KeptIffNotStrictlyInside ==
  (pc = "SELECTED" /\ new_fix) =>
    LET K == {i \in 1..Len(parts) :
                ~\E j \in 1..Len(parts) : j # i /\ StrictlyInside(parts[i], parts[j])}
    IN /\ Len(keep_flags) = Len(parts)
       /\ \A i \in 1..Len(parts) : keep_flags[i] <=> i \in K
       /\ SubListAt(parts, K, components)

\* C1 as stated: "contains" as lying within the other box, borders included.
C1_KeptIffNotWithin ==
  (pc = "SELECTED" /\ new_fix) =>
    LET K == {i \in 1..Len(parts) :
                ~\E j \in 1..Len(parts) : j # i /\ Within(parts[i], parts[j])}
    IN /\ \A i \in 1..Len(parts) : keep_flags[i] <=> i \in K
       /\ SubListAt(parts, K, components)

\* three components, one strictly inside another and dropped, the others kept
C1_Witness ==
  /\ pc = "SELECTED" /\ new_fix /\ Len(parts) = 3
  /\ StrictlyInside(parts[1], parts[2]) /\ ~StrictlyInside(parts[1], parts[3])
  /\ keep_flags = <<FALSE, TRUE, TRUE>>

(* C2, as amended.  Under the single-pick policy, for a non-empty list,    *)
(* exactly one component survives: the first one in the list whose         *)
(* bounding box has the longest side (largest extent along one axis).      *)
C2_FirstLongestSide ==
  (pc = "MERGED" /\ ~new_fix) =>
    /\ parts # <<>>
    /\ max_component \in 1..Len(parts)
    /\ \A j \in 1..Len(parts) : Side(parts[j]) <= Side(parts[max_component])
    /\ \A j \in 1..(max_component - 1) : Side(parts[j]) < Side(parts[max_component])
    /\ mesh = parts[max_component]

\* C2 as stated: the survivor has the largest bounding-box diagonal.
C2_LargestDiagonal ==
  (pc = "MERGED" /\ ~new_fix) =>
    \E i \in 1..Len(parts) :
      mesh = parts[i] /\ \A j \in 1..Len(parts) : Diag2(parts[j]) <= Diag2(parts[i])

\* a tie on the longest side, resolved to the first of the two
C2_Witness ==
  /\ pc = "MERGED" /\ ~new_fix /\ Len(parts) = 3
  /\ Side(parts[1]) < Side(parts[2]) /\ Side(parts[2]) = Side(parts[3])
  /\ parts[2] # parts[3] /\ mesh = parts[2]

(* C3.  With fix = False the call makes one GridField call, on the caller's *)
(* vertices and faces, passes only RAW, FIELD1, DONE, and returns that      *)
(* call's field unchanged; nothing of the repair branch runs.               *)
C3_NoFixSinglePass ==
  ~fix =>
    /\ pc \in {"RAW", "FIELD1", "DONE"}
    /\ Len(gridCalls) <= 1
    /\ mesh = NoMesh /\ parts = <<>> /\ components = <<>> /\ keep_flags = <<>>
    /\ pc = "DONE" =>
         /\ stages = <<"RAW", "FIELD1", "DONE">>
         /\ gridCalls = <<GridCall(vertices, faces, size, ret[1])>>

\* a returned field with a negative value
C3_Witness ==
  pc = "DONE" /\ ~fix /\ \E n \in Nodes : ret[1][n] < 0

(* C4.  With fix = True, once the kept set is empty (no component from the  *)
(* splitter, or none left by the selection) the call aborts: no mesh        *)
(* reaches the renormaliser or the second GridField call and no field is    *)
(* returned.                                                                *)
C4_EmptyKeptSetAborts ==
  (fix /\ (\/ Passed("SPLIT") /\ parts = <<>>
           \/ Passed("SELECTED") /\ new_fix /\ components = <<>>)) =>
    pc \notin {"RENORMALIZED", "FIELD2", "DONE"}

(* C5.  With fix = True and the level above the maximum of the absolute     *)
(* first-pass field, the call ends in an error raised at the                *)
(* iso-extraction stage: the splitter is never reached, no component is     *)
(* selected, GridField is not called again and nothing is returned.         *)
C5_LevelAboveMaxRaises ==
  (fix /\ Len(gridCalls) >= 1 /\ level > FieldMax(Abs(gridCalls[1].result))) =>
    /\ pc \in {"FIELD1", "ABS", "ERROR"}
    /\ pc = "ERROR" => err.stage = "ISO"
    /\ Len(gridCalls) = 1 /\ ret = <<>>
    /\ parts = <<>> /\ components = <<>> /\ keep_flags = <<>> /\ max_component = 0
    /\ mesh = NoMesh

C5_Witness ==
  /\ pc = "ERROR" /\ err = [stage |-> "ISO", kind |-> "ValueError"]
  /\ level > FieldMax(Abs(gridCalls[1].result))
  /\ stages = <<"RAW", "FIELD1", "ABS", "ERROR">>

C7_OutOfRangeRejected ==
  (\E k \in 1..Len(vertices) : \E a \in Axes : ~AtMostOne(vertices[k][a])) =>
    gridCalls = <<>> /\ ret = <<>>

(* C8.  A call with fix = True that returns has passed exactly RAW, FIELD1, *)
(* ABS, ISO, SPLIT, SELECTED, MERGED, RENORMALIZED, FIELD2, DONE, in that   *)
(* order; no call passes a stage twice or goes back; GridField is called    *)
(* at most twice, the second time only after the renormalisation and on     *)
(* the renormalised mesh.                                                   *)
StageOrder ==
  <<"RAW", "FIELD1", "ABS", "ISO", "SPLIT", "SELECTED", "MERGED", "RENORMALIZED", "FIELD2",
    "DONE", "ERROR">>
Rank(stage) == CHOOSE n \in 1..Len(StageOrder) : StageOrder[n] = stage

C8_SinglePassInOrder ==
  /\ \A m, n \in 1..Len(stages) : m < n => Rank(stages[m]) < Rank(stages[n])
  /\ stages[Len(stages)] = pc
  /\ (pc = "DONE" /\ fix) => stages = SubSeq(StageOrder, 1, Len(StageOrder) - 1)
  /\ Len(gridCalls) <= 2
  /\ Len(gridCalls) = 2 =>
       /\ \E m, n \in 1..Len(stages) :
            m < n /\ stages[m] = "RENORMALIZED" /\ stages[n] = "FIELD2"
       /\ gridCalls[2].vertices = mesh.vertices /\ gridCalls[2].faces = mesh.faces

C8_Witness ==
  pc = "DONE" /\ fix /\ Len(stages) = Len(StageOrder) - 1 /\ Len(gridCalls) = 2

(* C9.  Orders and distances of binary64 values.                           *)
NumLess(x, y) ==
  \E i \in 1..NumLimbs : x[i] < y[i] /\ \A j \in (i + 1)..NumLimbs : x[j] = y[j]
FloatLess(x, y) ==
  IF x.neg /\ ~y.neg THEN TRUE
  ELSE IF ~x.neg /\ y.neg THEN FALSE
  ELSE IF x.neg THEN NumLess(y.limbs, x.limbs) ELSE NumLess(x.limbs, y.limbs)
MinusOneF == [neg |-> TRUE, limbs |-> OneNum]
PlusOneF == [neg |-> FALSE, limbs |-> OneNum]
\* 2^-52, the unit in the last place of the binary64 values in [1, 2)
Ulp == AddAt(ZeroNum, FracBits - (MantBits - 1))
\* x + 1, exact, for -1 <= x <= 1
PlusOne(x) == IF x.neg THEN SubNum(OneNum, x.limbs) ELSE AddNum(OneNum, x.limbs)
\* |(x + 1) * (size - 1) - 2 g|: twice the distance, in grid cells, between the
\* grid position of x under the affine map of [-1, 1] onto [0, size - 1] and g
TwiceIndexErr(x, g, n) ==
  LET back == MulSmall(PlusOne(x), n - 1)
      want == MulSmall(OneNum, 2 * g)
  IN IF NumLess(back, want) THEN SubNum(want, back) ELSE SubNum(back, want)

\* the grid index g and the coordinate x it was renormalised to, over all
\* coordinates of all vertices
RenormPairs ==
  {<<components[1].vertices[k][a], mesh.vertices[k][a]>> :
     k \in 1..Len(mesh.vertices), a \in Axes}

C10_SomeComponentKept ==
  (pc = "SELECTED" /\ new_fix /\ parts # <<>>) =>
    /\ \E i \in 1..Len(keep_flags) : keep_flags[i]
    /\ components # <<>>

\* two components with the same box, both kept
C10_Witness ==
  /\ pc = "SELECTED" /\ new_fix /\ Len(parts) = 2
  /\ Within(parts[1], parts[2]) /\ Within(parts[2], parts[1])
  /\ keep_flags = <<TRUE, TRUE>>
====
